---- MODULE Spec2Model ----
(***************************************************************************)
(* Model of the concurrent collection engine of linux-inspect:             *)
(*   - TopStream (top_stream.go): producer enqueue(), consumer dequeue(),  *)
(*     Latest(), Stop()/Wait() via close(), the readiness gate and the     *)
(*     error channel;                                                      *)
(*   - GetSS: the fan-out socket query with its racy result cap.           *)
(* Every goroutine is a process with a program counter; every step of an   *)
(* action is one lock-delimited or otherwise atomic piece of the code.     *)
(***************************************************************************)
EXTENDS Integers, Sequences, FiniteSets, TLC

\* ------------------------------------------------------------------ bounds
\* number of lines the 'top' subprocess prints before it falls silent
MaxReads == 3
\* the same where a reader goroutine runs beside the collector
MaxReadsLatest == 2
\* the same in the fairly scheduled runs
MaxReadsLive == 2
\* largest number of lines one read of the pseudo-terminal brings into the
\* buffer of the bufio.Reader
MaxBuf == 2
\* number of Latest() calls the reader goroutine makes
MaxLatest == 2
\* largest number of entries one getSSEntry call returns
MaxEnts == 2
\* the same on a host with sockets of all ports
MaxEntsPorts == 1
\* largest result cap (TopLimit) of a filter
MaxLimit == 2
\* largest port number of a socket
MaxPort == 2

\* ------------------------------------------------------- errors as values
\* An error is the sequence of fragments of its message; nil is the empty one.
Nil == <<>>
ErrSignal == <<"signal:", "killed">>
ErrExit == <<"exit status", "1">>
ErrOther == <<"wait:", "no child processes">>
ErrPtmxIO == <<"read", "/dev/ptmx: input/output error">>
ErrPtmxClosed == <<"read", "/dev/ptmx: file already closed">>
ErrEOF == <<"EOF">>
ErrParse == <<"strconv.ParseInt:", "invalid syntax">>

\* strings.Contains(err.Error(), sub)
Contains(es, sub) == \E i \in 1..Len(es) : es[i] = sub

\* expectedErr, top_stream.go:223-231
expectedErr(e) ==
    IF e = Nil THEN TRUE
    ELSE \/ Contains(e, "signal:")
         \/ Contains(e, "/dev/ptmx: input/output error")
         \/ Contains(e, "/dev/ptmx: file already closed")

\* mutant of Squash: the two shutdown modes exchanged
SquashSwapped(k, e) ==
    IF e = Nil THEN Nil
    ELSE IF k /\ Contains(e, "exit status") THEN Nil
    ELSE IF ~k /\ expectedErr(e) THEN Nil
    ELSE e

\* close(), top_stream.go:212-218: the error close(kill) returns for the
\* error e of cmd.Wait()
Squash(k, e) ==
    IF e = Nil THEN Nil
    ELSE IF ~k /\ Contains(e, "exit status") THEN Nil
    ELSE IF k /\ expectedErr(e) THEN Nil
    ELSE e

\* ------------------------------------------------------------ input lines
\* A line is the sequence of its whitespace-separated fields
\* (bytes.TrimSpace + strings.Fields); the blank line has none.
Arity == 2
PidTok == {"1", "2"}
ValTok == <<"a", "b", "c", "d", "e">>
PidOf(tok) == IF tok = "1" THEN 1 ELSE 2

Banner == <<"top", "-">>
Blank == <<>>
Short == <<"1">>

\* topRowToSkip: recognises the banner and header lines of top
topRowToSkip(d) == Len(d) > 0 /\ d[1] = "top"

\* mutant of WrongArity: the field count is not checked
WrongArityUnchecked(row) == FALSE

\* top_stream.go:133: len(row) != len(TopRowHeaders)
WrongArity(row) == Len(row) # Arity

\* parseTopRow: the error, and the row, it returns
ParseFails(row) == row[1] \notin PidTok
RowOf(row) == [PID |-> PidOf(row[1]), val |-> IF Len(row) >= 2 THEN row[2] ELSE "-"]

WellFormed(d) == Len(d) = Arity /\ ~topRowToSkip(d) /\ ~ParseFails(d)

\* ------------------------------------------------------------------- GetSS
\* the process ids of the system, and the lists ListPIDs may return (the
\* calling process is always among the running ones, so never the empty list)
SSPids == {1, 2}
PidLists == {<<1>>, <<2>>, <<1, 2>>}
Families == {"tcp", "tcp6"}
\* a unit of work: one goroutine per candidate and enabled protocol family
Units == SSPids \X Families

\* the filters applyOpts lets through: not both a process id and a
\* program-name predicate
Filters ==
    {f \in [TCP : BOOLEAN, TCP6 : BOOLEAN, PID : 0..2, Match : BOOLEAN,
            TopLimit : 0..MaxLimit, LocalPort : 0..MaxPort,
            RemotePort : 0..MaxPort] : ~(f.PID > 0 /\ f.Match)}

\* the raw connections of a socket table, by their ports
Sockets == [LocalPort : 1..MaxPort, RemotePort : 1..MaxPort]
\* the socket tables of at most n sockets, every socket one of S
Tables(S, n) == UNION {[1..k -> S] : k \in 0..n}

ErrListPIDs == <<"open /proc:", "permission denied">>
ErrUptime == <<"open /proc/uptime:", "no such file">>

\* mutant of Truncate: the final truncation is missing
TruncateNever(s, n) == s

\* top_stream.go:426-428: sss[:ft.TopLimit:ft.TopLimit] when over the cap
Truncate(s, n) == IF n > 0 /\ Len(s) > n THEN SubSeq(s, 1, n) ELSE s

\* mutant of Appended: the entries are appended twice
AppendedTwice(s, ents) == s \o ents \o ents

\* top_stream.go:317, 339, 387, 418: append(sss, ents...)
Appended(s, ents) == s \o ents

\* mutant of Skipped: the remote port is not compared
SkippedByLocalOnly(lport, rport, elem) ==
    lport > 0 /\ lport # elem.LocalPort

\* top_stream.go:447-452: the socket is left out by the port filters
Skipped(lport, rport, elem) ==
    \/ lport > 0 /\ lport # elem.LocalPort
    \/ rport > 0 /\ rport # elem.RemotePort

\* top_stream.go:442-469: the entries of the sockets nss that pass the
\* port filters, in the order of the table
RECURSIVE EntriesOf(_, _, _, _, _)
EntriesOf(pid, tp, lport, rport, nss) ==
    IF nss = <<>> THEN <<>>
    ELSE (IF Skipped(lport, rport, Head(nss)) THEN <<>>
          ELSE <<[PID |-> pid, Protocol |-> tp,
                  LocalPort |-> Head(nss).LocalPort,
                  RemotePort |-> Head(nss).RemotePort]>>)
         \o EntriesOf(pid, tp, lport, rport, Tail(nss))

\* getSSEntry (432-472) once GetNetTCP, GetProgram and user.LookupId have
\* succeeded
getSSEntry(pid, tp, lport, rport, nss) == EntriesOf(pid, tp, lport, rport, nss)

EmptyMap == <<>>
\* m[k] = v of a Go map
Put(m, k, v) == (k :> v) @@ m

VARIABLES
    \* subprocess and pseudo-terminal
    child,          \* "alive" | "exited" | "killed" (by Stop)
    ptClosed,       \* str.pt has been closed
    nReads,         \* lines handed out by ReadLine so far
    buf,            \* lines in the buffer of the bufio.Reader, read from
                    \* the pseudo-terminal and not yet handed out
    feed,           \* what the subprocess prints: feed.lines lines, and
                    \* among them lines that are not rows iff feed.noise;
                    \* feed.dead is the error the platform gives a read of
                    \* the pseudo-terminal once the subprocess is gone
    \* TopStream fields
    pmu,            \* holder of str.pmu: "none" | "enq" | "close"
    rmuW,           \* writer holding str.rmu: "none" | "enq" | "deq"
    rmuR,           \* number of readers holding str.rmu
    wg,             \* counter of str.wg
    queue,          \* str.queue
    maps,           \* the heap of maps: maps[0] is str.pid2TopCommandRow,
                    \* maps[i] the map the i-th Latest() call allocates
    err,            \* str.err
    errc,           \* buffer of str.errc (capacity 1)
    ready,          \* str.ready
    readycCloses,   \* number of close(str.readyc) executed
    \* goroutines
    enqPc, data, lerr,
    deqPc,
    callPc, kill, waitErr, ret,
    latPc, latN,
    \* history
    fed,            \* well-formed lines handed out by ReadLine, in order
    appended,       \* rows appended to str.queue, in order
    popped,         \* rows popped from str.queue, in order
    latAt,          \* latAt[i]: the snapshot when Latest call i took RLock
    latRet,         \* latRet[i]: the map Latest call i returned
    latAfter,       \* latAfter[i]: call i began after Stop()/Wait() returned
    errSent,        \* number of sends on str.errc
    recorded,       \* the errors the producer has stored in str.err
    \* GetSS
    ft,             \* the EntryFilter: TCP, TCP6, PID (0: not set), Match
                    \* (ProgramMatchFunc is not nil), TopLimit, LocalPort
                    \* and RemotePort (0: not set)
    net,            \* the socket tables GetNetTCP may return
    pids,           \* the candidate process ids
    ssMode,         \* "direct" (top_stream.go:291) | "predicate" (344)
    ssPc,           \* position of the caller in GetSS
    ssNext,         \* index in pids of the next candidate to fan out
    ssWg,           \* counter of wg
    unitPc,         \* position of each unit of work, "none" if not started
    unitEnts,       \* ents of each unit
    sss,            \* the shared results list
    ssRet,          \* the slice GetSS returned
    ssErr,          \* the error GetSS returned
    \* history
    ssAdded,        \* total passed to wg.Add
    ssStarted       \* number of units started

streamVars == <<child, ptClosed, nReads, buf, feed, pmu, rmuW, rmuR, wg, queue,
                maps, err, errc, ready, readycCloses, enqPc, data, lerr, deqPc,
                callPc, kill, waitErr, ret, latPc, latN, fed, appended, popped,
                latAt, latRet, latAfter, errSent, recorded>>

ssVars == <<ft, net, pids, ssMode, ssPc, ssNext, ssWg, unitPc, unitEnts, sss,
            ssRet, ssErr, ssAdded, ssStarted>>

vars == <<streamVars, ssVars>>

Calls == 1..MaxLatest

\* the lines the subprocess may print as its n-th line: a banner, a blank
\* line, a line one field short, a row whose pid does not parse, a row
Lines(n) ==
    IF feed.noise
    THEN {Banner, Blank, Short} \cup {<<p, ValTok[n]>> : p \in PidTok \cup {"x"}}
    ELSE {<<p, ValTok[n]>> : p \in PidTok}


\* StartStream, top_stream.go:46-68: the collector as constructed, both
\* goroutines started, the caller about to block on readyc
InitStream ==
    /\ child = "alive" /\ ptClosed = FALSE /\ nReads = 0 /\ buf = 0
    /\ pmu = "none" /\ rmuW = "none" /\ rmuR = 0
    /\ wg = 1
    /\ queue = <<>>
    /\ maps = [i \in 0..MaxLatest |-> EmptyMap]
    /\ err = Nil /\ errc = <<>>
    /\ ready = FALSE /\ readycCloses = 0
    /\ enqPc = "check" /\ data = Blank /\ lerr = Nil
    /\ deqPc = "lock"
    /\ callPc = "start" /\ kill = FALSE /\ waitErr = Nil /\ ret = Nil
    /\ latPc = "idle" /\ latN = 0
    /\ fed = <<>> /\ appended = <<>> /\ popped = <<>>
    /\ latAt = [i \in Calls |-> EmptyMap]
    /\ latRet = [i \in Calls |-> EmptyMap]
    /\ latAfter = [i \in Calls |-> FALSE]
    /\ errSent = 0
    /\ recorded = {}

\* the subprocesses of the model: n lines, with or without lines that are
\* not rows, on a platform whose dead pseudo-terminal reads as an I/O error
\* or as end of file
Feeds(noisy, n) ==
    {[noise |-> noisy, lines |-> n, dead |-> e] : e \in {ErrPtmxIO, ErrEOF}}

\* no GetSS call is in progress
SSIdle ==
    /\ ft = [TCP |-> FALSE, TCP6 |-> FALSE, PID |-> 0, Match |-> FALSE,
             TopLimit |-> 0, LocalPort |-> 0, RemotePort |-> 0]
    /\ net = {}
    /\ pids = <<>> /\ ssMode = "direct" /\ ssPc = "idle" /\ ssNext = 1
    /\ ssWg = 0 /\ ssAdded = 0 /\ ssStarted = 0
    /\ unitPc = [u \in Units |-> "none"]
    /\ unitEnts = [u \in Units |-> <<>>]
    /\ sss = <<>> /\ ssRet = <<>> /\ ssErr = Nil

\* the subprocess prints banners, blank and malformed lines among the rows
Init == InitStream /\ feed \in Feeds(TRUE, MaxReads) /\ SSIdle

\* the subprocess prints rows only, and a read of its dead pseudo-terminal
\* is an end of file
InitLatest ==
    /\ InitStream /\ SSIdle
    /\ feed \in {f \in Feeds(FALSE, MaxReadsLatest) : f.dead = ErrEOF}

\* rcond.Signal(): wakes the consumer if it is in rcond.Wait()
Signalled(pc) == IF pc = "wait" THEN "relock" ELSE pc


\* ---------------------------------------------------------------- producer
\* what reader.ReadLine() returns now: <<data, lerr, lines left in the
\* buffer>>. A buffered line is handed out without a read of the handle.
\* With an empty buffer the handle is read: a closed handle and a
\* pseudo-terminal whose subprocess is gone yield an error and no data; a
\* live one yields the lines the subprocess has written, as many as one
\* read brings, and blocks once the subprocess is silent.
ReadResults ==
    IF buf > 0 THEN {<<l, Nil, buf - 1>> : l \in Lines(nReads + 1)}
    ELSE IF ptClosed THEN {<<Blank, ErrPtmxClosed, 0>>}
    ELSE IF child # "alive" THEN {<<Blank, feed.dead, 0>>}
    ELSE {<<l, Nil, k - 1>> :
             l \in Lines(nReads + 1),
             k \in {j \in 1..MaxBuf : nReads + j <= feed.lines}}

\* top_stream.go:111 (noError, 100-105): the loop condition, under RLock
EnqCheck ==
    /\ enqPc = "check"
    /\ rmuW = "none"
    /\ enqPc' = IF err = Nil THEN "plock" ELSE "signal"
    /\ UNCHANGED <<ssVars, recorded, buf, child, ptClosed, nReads, feed, pmu, rmuW, rmuR, wg,
                   queue, maps, err, errc, ready, readycCloses, data, lerr,
                   deqPc, callPc, kill, waitErr, ret, latPc, latN, fed,
                   appended, popped, latAt, latRet, latAfter, errSent>>

\* top_stream.go:113: str.pmu.Lock()
EnqLockPt ==
    /\ enqPc = "plock"
    /\ pmu = "none"
    /\ pmu' = "enq"
    /\ enqPc' = "read"
    /\ UNCHANGED <<ssVars, recorded, buf, child, ptClosed, nReads, feed, rmuW, rmuR, wg,
                   queue, maps, err, errc, ready, readycCloses, data, lerr,
                   deqPc, callPc, kill, waitErr, ret, latPc, latN, fed,
                   appended, popped, latAt, latRet, latAfter, errSent>>

\* top_stream.go:114-121: ReadLine returns, pmu is released, banner lines
\* are skipped
EnqRead ==
    /\ enqPc = "read"
    /\ \E r \in ReadResults :
        /\ data' = r[1]
        /\ lerr' = r[2]
        /\ buf' = r[3]
        /\ nReads' = IF r[2] = Nil THEN nReads + 1 ELSE nReads
        /\ fed' = IF r[2] = Nil /\ WellFormed(r[1]) THEN Append(fed, r[1]) ELSE fed
        /\ enqPc' = IF topRowToSkip(r[1]) THEN "check" ELSE "rlock"
    /\ pmu' = "none"
    /\ UNCHANGED <<ssVars, recorded, child, ptClosed, feed, rmuW, rmuR, wg,
                   queue, maps, err, errc, ready, readycCloses,
                   deqPc, callPc, kill, waitErr, ret, latPc, latN,
                   appended, popped, latAt, latRet, latAfter, errSent>>

\* top_stream.go:124: str.rmu.Lock()
EnqLockR ==
    /\ enqPc = "rlock"
    /\ rmuW = "none" /\ rmuR = 0
    /\ rmuW' = "enq"
    /\ enqPc' = "body"
    /\ UNCHANGED <<ssVars, recorded, buf, child, ptClosed, nReads, feed, pmu, rmuR, wg,
                   queue, maps, err, errc, ready, readycCloses, data, lerr,
                   deqPc, callPc, kill, waitErr, ret, latPc, latN, fed,
                   appended, popped, latAt, latRet, latAfter, errSent>>

\* mutant of BecameNonEmpty: the signal is given for the second row
BecameNonEmptyLate(q) == Len(q) = 2

\* top_stream.go:146: len(str.queue) == 1
BecameNonEmpty(q) == Len(q) = 1

\* top_stream.go:126-150: the critical section of one line, up to Unlock
EnqBody ==
    /\ enqPc = "body"
    /\ IF data = Blank \/ WrongArity(data)
       THEN /\ err' = lerr
            /\ UNCHANGED <<queue, appended, deqPc>>
       ELSE IF ParseFails(data)
       THEN /\ err' = ErrParse
            /\ UNCHANGED <<queue, appended, deqPc>>
       ELSE /\ err' = lerr
            /\ queue' = Append(queue, RowOf(data))
            /\ appended' = Append(appended, RowOf(data))
            /\ deqPc' = IF BecameNonEmpty(queue') THEN Signalled(deqPc) ELSE deqPc
    /\ recorded' = IF err' # Nil THEN recorded \cup {err'} ELSE recorded
    /\ rmuW' = "none"
    /\ enqPc' = "check"
    /\ UNCHANGED <<ssVars, buf, child, ptClosed, nReads, feed, pmu, rmuR, wg,
                   maps, errc, ready, readycCloses, data, lerr,
                   callPc, kill, waitErr, ret, latPc, latN, fed,
                   popped, latAt, latRet, latAfter, errSent>>

\* mutant of EnqSignal: the producer leaves its loop without a Signal
EnqSignalMissing ==
    /\ enqPc = "signal"
    /\ enqPc' = "exit"
    /\ UNCHANGED <<ssVars, recorded, buf, child, ptClosed, nReads, feed, pmu, rmuW, rmuR, wg,
                   queue, maps, err, errc, ready, readycCloses, data, lerr,
                   deqPc, callPc, kill, waitErr, ret, latPc, latN, fed,
                   appended, popped, latAt, latRet, latAfter, errSent>>

\* top_stream.go:154: the Signal after the loop, without the lock
EnqSignal ==
    /\ enqPc = "signal"
    /\ deqPc' = Signalled(deqPc)
    /\ enqPc' = "exit"
    /\ UNCHANGED <<ssVars, recorded, buf, child, ptClosed, nReads, feed, pmu, rmuW, rmuR, wg,
                   queue, maps, err, errc, ready, readycCloses, data, lerr,
                   callPc, kill, waitErr, ret, latPc, latN, fed,
                   appended, popped, latAt, latRet, latAfter, errSent>>

\* mutant of EnqDone: the producer returns without wg.Done()
EnqDoneMissing ==
    /\ enqPc = "exit"
    /\ enqPc' = "done"
    /\ UNCHANGED <<ssVars, recorded, buf, child, ptClosed, nReads, feed, pmu, rmuW, rmuR,
                   wg, queue, maps, err, errc, ready, readycCloses, data, lerr,
                   deqPc, callPc, kill, waitErr, ret, latPc, latN, fed,
                   appended, popped, latAt, latRet, latAfter, errSent>>

\* top_stream.go:109: the deferred str.wg.Done()
EnqDone ==
    /\ enqPc = "exit"
    /\ wg' = wg - 1
    /\ enqPc' = "done"
    /\ UNCHANGED <<ssVars, recorded, buf, child, ptClosed, nReads, feed, pmu, rmuW, rmuR,
                   queue, maps, err, errc, ready, readycCloses, data, lerr,
                   deqPc, callPc, kill, waitErr, ret, latPc, latN, fed,
                   appended, popped, latAt, latRet, latAfter, errSent>>

\* ---------------------------------------------------------------- consumer
\* top_stream.go:160 str.rmu.Lock(), and the re-lock at the end of
\* rcond.Wait() (164)
DeqLock ==
    /\ deqPc \in {"lock", "relock"}
    /\ rmuW = "none" /\ rmuR = 0
    /\ rmuW' = "deq"
    /\ deqPc' = "loop"
    /\ UNCHANGED <<ssVars, recorded, buf, child, ptClosed, nReads, feed, pmu, rmuR, wg,
                   queue, maps, err, errc, ready, readycCloses, enqPc, data,
                   lerr, callPc, kill, waitErr, ret, latPc, latN, fed,
                   appended, popped, latAt, latRet, latAfter, errSent>>

\* top_stream.go:163-170: wait while there is neither a row nor an error
\* (rcond.Wait() enters the notify list and unlocks atomically); leave the
\* loop when there is an error and no row
DeqLoop ==
    /\ deqPc = "loop"
    /\ IF Len(queue) = 0 /\ err = Nil
       THEN deqPc' = "wait" /\ rmuW' = "none"
       ELSE IF Len(queue) = 0
       THEN deqPc' = "reclass" /\ rmuW' = rmuW
       ELSE deqPc' = "pop" /\ rmuW' = rmuW
    /\ UNCHANGED <<ssVars, recorded, buf, child, ptClosed, nReads, feed, pmu, rmuR, wg,
                   queue, maps, err, errc, ready, readycCloses, enqPc, data,
                   lerr, callPc, kill, waitErr, ret, latPc, latN, fed,
                   appended, popped, latAt, latRet, latAfter, errSent>>

\* mutant of QueueFront: the newest row is taken
QueueBack(q) == q[Len(q)]

\* top_stream.go:172: row := str.queue[0]
QueueFront(q) == q[1]

\* top_stream.go:172-175: pop the oldest row and store it in the snapshot
DeqPop ==
    /\ deqPc = "pop"
    /\ queue' = Tail(queue)
    /\ popped' = Append(popped, QueueFront(queue))
    /\ maps' = [maps EXCEPT ![0] = Put(maps[0], QueueFront(queue).PID,
                                       QueueFront(queue))]
    /\ deqPc' = "ready"
    /\ UNCHANGED <<ssVars, recorded, buf, child, ptClosed, nReads, feed, pmu, rmuW, rmuR, wg,
                   err, errc, ready, readycCloses, enqPc, data,
                   lerr, callPc, kill, waitErr, ret, latPc, latN, fed,
                   appended, latAt, latRet, latAfter, errSent>>

\* mutant of NotYetReady: the gate is fired for every row
NotYetReadyAlways(rd) == TRUE

\* top_stream.go:180: if !rd
NotYetReady(rd) == ~rd

\* top_stream.go:177-185: the one-shot readiness gate
DeqReady ==
    /\ deqPc = "ready"
    /\ IF NotYetReady(ready)
       THEN ready' = TRUE /\ readycCloses' = readycCloses + 1
       ELSE UNCHANGED <<ready, readycCloses>>
    /\ deqPc' = "loop"
    /\ UNCHANGED <<ssVars, recorded, buf, child, ptClosed, nReads, feed, pmu, rmuW, rmuR, wg,
                   queue, maps, err, errc, enqPc, data,
                   lerr, callPc, kill, waitErr, ret, latPc, latN, fed,
                   appended, popped, latAt, latRet, latAfter, errSent>>

\* mutant of DeqReclass: the error goes to the channel as it was recorded
DeqReclassKeeps ==
    /\ deqPc = "reclass"
    /\ deqPc' = "send"
    /\ UNCHANGED <<ssVars, recorded, buf, child, ptClosed, nReads, feed, pmu, rmuW, rmuR, wg,
                   queue, maps, err, errc, ready, readycCloses, enqPc, data,
                   lerr, callPc, kill, waitErr, ret, latPc, latN, fed,
                   appended, popped, latAt, latRet, latAfter, errSent>>

\* top_stream.go:187-189: an expected terminal error becomes nil
DeqReclass ==
    /\ deqPc = "reclass"
    /\ err' = IF expectedErr(err) THEN Nil ELSE err
    /\ deqPc' = "send"
    /\ UNCHANGED <<ssVars, recorded, buf, child, ptClosed, nReads, feed, pmu, rmuW, rmuR, wg,
                   queue, maps, errc, ready, readycCloses, enqPc, data,
                   lerr, callPc, kill, waitErr, ret, latPc, latN, fed,
                   appended, popped, latAt, latRet, latAfter, errSent>>

\* top_stream.go:190-192: str.errc <- str.err, which blocks on a full buffer
DeqSend ==
    /\ deqPc = "send"
    /\ IF err # Nil
       THEN /\ Len(errc) < 1
            /\ errc' = Append(errc, err)
            /\ errSent' = errSent + 1
       ELSE UNCHANGED <<errc, errSent>>
    /\ deqPc' = "unlock"
    /\ UNCHANGED <<ssVars, recorded, buf, child, ptClosed, nReads, feed, pmu, rmuW, rmuR, wg,
                   queue, maps, err, ready, readycCloses, enqPc, data,
                   lerr, callPc, kill, waitErr, ret, latPc, latN, fed,
                   appended, popped, latAt, latRet, latAfter>>

\* mutant of DeqUnlock: the report of the error is inside the loop
DeqUnlockLoops ==
    /\ deqPc = "unlock"
    /\ deqPc' = "loop"
    /\ UNCHANGED <<ssVars, recorded, buf, child, ptClosed, nReads, feed, pmu, rmuW, rmuR, wg,
                   queue, maps, err, errc, ready, readycCloses, enqPc, data,
                   lerr, callPc, kill, waitErr, ret, latPc, latN, fed,
                   appended, popped, latAt, latRet, latAfter, errSent>>

\* top_stream.go:193: str.rmu.Unlock(), and dequeue returns
DeqUnlock ==
    /\ deqPc = "unlock"
    /\ rmuW' = "none"
    /\ deqPc' = "done"
    /\ UNCHANGED <<ssVars, recorded, buf, child, ptClosed, nReads, feed, pmu, rmuR, wg,
                   queue, maps, err, errc, ready, readycCloses, enqPc, data,
                   lerr, callPc, kill, waitErr, ret, latPc, latN, fed,
                   appended, popped, latAt, latRet, latAfter, errSent>>


\* ------------------------------------------------------------------ caller
\* top_stream.go:70-71: StartStream returns once readyc is closed
StartReturn ==
    /\ callPc = "start"
    /\ readycCloses > 0
    /\ callPc' = "running"
    /\ UNCHANGED <<ssVars, recorded, buf, child, ptClosed, nReads, feed, pmu, rmuW, rmuR, wg,
                   queue, maps, err, errc, ready, readycCloses, enqPc, data,
                   lerr, deqPc, kill, waitErr, ret, latPc, latN, fed,
                   appended, popped, latAt, latRet, latAfter, errSent>>

\* the subprocess ends by itself or by a signal from outside
ChildExit ==
    /\ child = "alive"
    /\ child' = "exited"
    /\ UNCHANGED <<ssVars, recorded, buf, ptClosed, nReads, feed, pmu, rmuW, rmuR, wg,
                   queue, maps, err, errc, ready, readycCloses, enqPc, data,
                   lerr, deqPc, callPc, kill, waitErr, ret, latPc, latN, fed,
                   appended, popped, latAt, latRet, latAfter, errSent>>

\* Stop() / Wait(), top_stream.go:75-82 and 196-202: str.cmd is set, and
\* Stop kills the subprocess if it is still there
CloseBegin ==
    /\ callPc = "running"
    /\ \E k \in BOOLEAN :
        /\ kill' = k
        /\ child' = IF k /\ child = "alive" THEN "killed" ELSE child
    /\ callPc' = "cmdwait"
    /\ UNCHANGED <<ssVars, recorded, buf, ptClosed, nReads, feed, pmu, rmuW, rmuR, wg,
                   queue, maps, err, errc, ready, readycCloses, enqPc, data,
                   lerr, deqPc, waitErr, ret, latPc, latN, fed,
                   appended, popped, latAt, latRet, latAfter, errSent>>

\* what cmd.Wait() returns for a subprocess that is gone: death by the
\* Kill of Stop is death by signal; otherwise exit status 0, a nonzero exit
\* status, death by a signal from elsewhere, or a failure of the wait itself
WaitResults ==
    IF child = "killed" THEN {ErrSignal} ELSE {Nil, ErrExit, ErrSignal, ErrOther}

\* top_stream.go:204: err = str.cmd.Wait()
CloseCmdWait ==
    /\ callPc = "cmdwait"
    /\ child # "alive"
    /\ waitErr' \in WaitResults
    /\ callPc' = "ptlock"
    /\ UNCHANGED <<ssVars, recorded, buf, child, ptClosed, nReads, feed, pmu, rmuW, rmuR, wg,
                   queue, maps, err, errc, ready, readycCloses, enqPc, data,
                   lerr, deqPc, kill, ret, latPc, latN, fed,
                   appended, popped, latAt, latRet, latAfter, errSent>>

\* mutant of CloseLockPt: close() does not wait for the device lock
CloseLockPtUnguarded ==
    /\ callPc = "ptlock"
    /\ pmu' = "close"
    /\ callPc' = "ptclose"
    /\ UNCHANGED <<ssVars, recorded, buf, child, ptClosed, nReads, feed, rmuW, rmuR, wg,
                   queue, maps, err, errc, ready, readycCloses, enqPc, data,
                   lerr, deqPc, kill, waitErr, ret, latPc, latN, fed,
                   appended, popped, latAt, latRet, latAfter, errSent>>

\* top_stream.go:206: str.pmu.Lock()
CloseLockPt ==
    /\ callPc = "ptlock"
    /\ pmu = "none"
    /\ pmu' = "close"
    /\ callPc' = "ptclose"
    /\ UNCHANGED <<ssVars, recorded, buf, child, ptClosed, nReads, feed, rmuW, rmuR, wg,
                   queue, maps, err, errc, ready, readycCloses, enqPc, data,
                   lerr, deqPc, kill, waitErr, ret, latPc, latN, fed,
                   appended, popped, latAt, latRet, latAfter, errSent>>

\* top_stream.go:207-208: str.pt.Close(); str.pmu.Unlock()
ClosePt ==
    /\ callPc = "ptclose"
    /\ ptClosed' = TRUE
    /\ pmu' = "none"
    /\ callPc' = "wgwait"
    /\ UNCHANGED <<ssVars, recorded, buf, child, nReads, feed, rmuW, rmuR, wg,
                   queue, maps, err, errc, ready, readycCloses, enqPc, data,
                   lerr, deqPc, kill, waitErr, ret, latPc, latN, fed,
                   appended, popped, latAt, latRet, latAfter, errSent>>

\* top_stream.go:210-220: str.wg.Wait(), then the error is reclassified
\* and returned
CloseJoin ==
    /\ callPc = "wgwait"
    /\ wg = 0
    /\ ret' = Squash(kill, waitErr)
    /\ callPc' = "stopped"
    /\ UNCHANGED <<ssVars, recorded, buf, child, ptClosed, nReads, feed, pmu, rmuW, rmuR, wg,
                   queue, maps, err, errc, ready, readycCloses, enqPc, data,
                   lerr, deqPc, kill, waitErr, latPc, latN, fed,
                   appended, popped, latAt, latRet, latAfter, errSent>>

\* a receive from ErrChan()
ErrRecv ==
    /\ callPc # "start"
    /\ Len(errc) > 0
    /\ errc' = Tail(errc)
    /\ UNCHANGED <<ssVars, recorded, buf, child, ptClosed, nReads, feed, pmu, rmuW, rmuR, wg,
                   queue, maps, err, ready, readycCloses, enqPc, data,
                   lerr, deqPc, callPc, kill, waitErr, ret, latPc, latN, fed,
                   appended, popped, latAt, latRet, latAfter, errSent>>

\* ------------------------------------------------------------------ reader
\* mutant of RLockFree: Latest reads the snapshot without the lock
RLockFreeAlways(w) == TRUE

\* str.rmu.RLock() succeeds when no writer holds str.rmu
RLockFree(w) == w = "none"

\* top_stream.go:91-92: RLock, and the map to return is allocated
LatestBegin ==
    /\ callPc # "start"
    /\ latPc = "idle"
    /\ latN < MaxLatest
    /\ RLockFree(rmuW)
    /\ rmuR' = rmuR + 1
    /\ maps' = [maps EXCEPT ![latN + 1] = EmptyMap]
    /\ latAt' = [latAt EXCEPT ![latN + 1] = maps[0]]
    /\ latAfter' = [latAfter EXCEPT ![latN + 1] = (callPc = "stopped")]
    /\ latPc' = "copy"
    /\ UNCHANGED <<ssVars, recorded, buf, child, ptClosed, nReads, feed, pmu, rmuW, wg,
                   queue, err, errc, ready, readycCloses, enqPc, data,
                   lerr, deqPc, callPc, kill, waitErr, ret, latN, fed,
                   appended, popped, latRet, errSent>>

\* top_stream.go:93-95: one iteration of the range over the snapshot
LatestCopy ==
    /\ latPc = "copy"
    /\ \E k \in DOMAIN maps[0] \ DOMAIN maps[latN + 1] :
        maps' = [maps EXCEPT ![latN + 1] = Put(maps[latN + 1], k, maps[0][k])]
    /\ UNCHANGED <<ssVars, recorded, buf, child, ptClosed, nReads, feed, pmu, rmuW, rmuR, wg,
                   queue, err, errc, ready, readycCloses, enqPc, data,
                   lerr, deqPc, callPc, kill, waitErr, ret, latPc, latN, fed,
                   appended, popped, latAt, latRet, latAfter, errSent>>

\* top_stream.go:96-97: the range is over, RUnlock, return cm
LatestReturn ==
    /\ latPc = "copy"
    /\ DOMAIN maps[0] \subseteq DOMAIN maps[latN + 1]
    /\ rmuR' = rmuR - 1
    /\ latRet' = [latRet EXCEPT ![latN + 1] = maps[latN + 1]]
    /\ latN' = latN + 1
    /\ latPc' = "idle"
    /\ UNCHANGED <<ssVars, recorded, buf, child, ptClosed, nReads, feed, pmu, rmuW, wg,
                   queue, maps, err, errc, ready, readycCloses, enqPc, data,
                   lerr, deqPc, callPc, kill, waitErr, ret, fed,
                   appended, popped, latAt, latAfter, errSent>>

\* the caller of Latest() empties a map it was given
MutateReturned ==
    /\ \E i \in 1..latN :
        /\ maps[i] # EmptyMap
        /\ maps' = [maps EXCEPT ![i] = EmptyMap]
    /\ UNCHANGED <<ssVars, recorded, buf, child, ptClosed, nReads, feed, pmu, rmuW, rmuR, wg,
                   queue, err, errc, ready, readycCloses, enqPc, data,
                   lerr, deqPc, callPc, kill, waitErr, ret, latPc, latN, fed,
                   appended, popped, latAt, latRet, latAfter, errSent>>

NextStream ==
    \/ EnqCheck \/ EnqLockPt \/ EnqRead \/ EnqLockR \/ EnqBody
    \/ EnqSignal \/ EnqDone
    \/ DeqLock \/ DeqLoop \/ DeqPop \/ DeqReady \/ DeqReclass \/ DeqSend
    \/ DeqUnlock
    \/ StartReturn \/ ChildExit \/ CloseBegin \/ CloseCmdWait \/ CloseLockPt
    \/ ClosePt \/ CloseJoin \/ ErrRecv

NextReader == LatestBegin \/ LatestCopy \/ LatestReturn \/ MutateReturned

\* the collector with its two workers and the caller of StartStream and
\* Stop/Wait
Next == NextStream

Spec == Init /\ [][Next]_vars

\* the same with a goroutine calling Latest()
NextLatest == NextStream \/ NextReader

SpecLatest == InitLatest /\ [][NextLatest]_vars

\* the steps of the producer, of the consumer and of close() that wait for
\* nothing, and those that wait for a lock
EnqSteps == EnqRead \/ EnqBody \/ EnqSignal \/ EnqDone
EnqLocks == EnqCheck \/ EnqLockPt \/ EnqLockR
DeqSteps == DeqLoop \/ DeqPop \/ DeqReady \/ DeqReclass \/ DeqSend \/ DeqUnlock
CallSteps == StartReturn \/ CloseCmdWait \/ ClosePt \/ CloseJoin

\* the collector under the scheduling the Go runtime gives it: a goroutine
\* that can take a step takes it, a goroutine waiting for a mutex gets it
\* (sync.Mutex hands a starving waiter the lock), close() runs to its end
\* once called.  Nothing obliges the subprocess to exit, the caller to call
\* Stop or Wait, or anyone to receive from ErrChan.
InitLive == InitStream /\ feed \in Feeds(TRUE, MaxReadsLive) /\ SSIdle

SpecLive ==
    /\ InitLive
    /\ [][Next]_vars
    /\ WF_vars(EnqSteps) /\ SF_vars(EnqLocks)
    /\ WF_vars(DeqSteps) /\ SF_vars(DeqLock)
    /\ WF_vars(CallSteps) /\ SF_vars(CloseLockPt)

\* ------------------------------------------------------------------- GetSS
\* top_stream.go:294-297 and 355-358: the count given to wg.Add for n
\* candidates
WgCount(n) == n + (IF ft.TCP /\ ft.TCP6 THEN n ELSE 0)

\* the caller goes on to fan out over the candidates l
FanOut(mode, l) ==
    /\ pids' = l
    /\ ssMode' = mode
    /\ ssWg' = ssWg + WgCount(Len(l))
    /\ ssAdded' = ssAdded + WgCount(Len(l))
    /\ ssPc' = "spawn"
    /\ UNCHANGED <<ft, net, ssNext, unitPc, unitEnts, sss, ssRet, ssErr, ssStarted>>

\* GetSS returns early with the error e and no entries
ReturnError(e) ==
    /\ ssErr' = e
    /\ ssPc' = "done"
    /\ UNCHANGED <<ft, net, pids, ssMode, ssNext, ssWg, unitPc, unitEnts, sss,
                   ssRet, ssAdded, ssStarted>>

\* top_stream.go:269-297: the candidate set by the kind of filter, and for
\* known candidates wg.Add
SSResolve ==
    /\ ssPc = "resolve"
    /\ \/ /\ ~ft.Match /\ ft.PID < 1
          /\ \/ ReturnError(ErrListPIDs)
             \/ \E l \in PidLists : FanOut("direct", l)
       \/ /\ ft.PID > 0
          /\ FanOut("direct", <<ft.PID>>)
       \/ /\ ft.Match /\ ft.PID < 1
          /\ ssPc' = "byprogram"
          /\ UNCHANGED <<ft, net, pids, ssMode, ssNext, ssWg, unitPc, unitEnts,
                         sss, ssRet, ssErr, ssAdded, ssStarted>>
    /\ UNCHANGED streamVars

\* top_stream.go:344-358: all process ids and the uptime, then wg.Add
SSByProgram ==
    /\ ssPc = "byprogram"
    /\ \/ ReturnError(ErrListPIDs)
       \/ ReturnError(ErrUptime)
       \/ \E l \in PidLists : FanOut("predicate", l)
    /\ UNCHANGED streamVars

FirstPc == IF ssMode = "direct" THEN "fetch" ELSE "stat"
Goes(tp) == IF tp = "tcp" THEN ft.TCP ELSE ft.TCP6
ToStart == {u \in Units : u[1] = pids[ssNext] /\ Goes(u[2])}

\* top_stream.go:298-343 and 359-422: one iteration of the loop over the
\* candidates starts a goroutine for each enabled family
SSSpawn ==
    /\ ssPc = "spawn"
    /\ ssNext <= Len(pids)
    /\ unitPc' = [u \in Units |-> IF u \in ToStart THEN FirstPc ELSE unitPc[u]]
    /\ ssStarted' = ssStarted + Cardinality(ToStart)
    /\ ssNext' = ssNext + 1
    /\ UNCHANGED <<ft, net, pids, ssMode, ssPc, ssWg, unitEnts, sss, ssRet, ssErr,
                   ssAdded>>
    /\ UNCHANGED streamVars

\* the loop over the candidates is over
SSSpawned ==
    /\ ssPc = "spawn"
    /\ ssNext > Len(pids)
    /\ ssPc' = "wait"
    /\ UNCHANGED <<ft, net, pids, ssMode, ssNext, ssWg, unitPc, unitEnts, sss,
                   ssRet, ssErr, ssAdded, ssStarted>>
    /\ UNCHANGED streamVars

\* how a unit of work ends: its entries appended, a failed call, a program
\* name that does not match, the cap found reached
Finished == {"done", "failed", "nomatch", "capped"}

\* the unit returns: its deferred wg.Done()
UnitReturns(u, how) ==
    /\ unitPc' = [unitPc EXCEPT ![u] = how]
    /\ ssWg' = ssWg - 1

\* mutant of UnitFails: the failure of a unit becomes the error of the query
UnitFailsAborts(u) ==
    /\ UnitReturns(u, "failed")
    /\ ssErr' = ErrUptime

\* top_stream.go:304-307 (326-329, 365-368, 381-384, 396-399, 412-415): the
\* error is logged and the unit returns
UnitFails(u) ==
    /\ UnitReturns(u, "failed")
    /\ ssErr' = ssErr

\* top_stream.go:364-371 (395-402): GetStat fails, or the program name
\* does not match, or it does
UnitStat(u) ==
    /\ unitPc[u] = "stat"
    /\ \/ UnitFails(u)
       \/ UnitReturns(u, "nomatch") /\ ssErr' = ssErr
       \/ unitPc' = [unitPc EXCEPT ![u] = "check"] /\ ssWg' = ssWg
                                                  /\ ssErr' = ssErr
    /\ UNCHANGED <<ft, net, pids, ssMode, ssPc, ssNext, unitEnts, sss, ssRet,
                   ssAdded, ssStarted>>
    /\ UNCHANGED streamVars

\* top_stream.go:303-307 (325-329, 380-384, 411-415): getSSEntry fails, or
\* returns the entries of the process for the family
UnitFetch(u) ==
    /\ unitPc[u] = "fetch"
    /\ \/ UnitFails(u) /\ UNCHANGED unitEnts
       \/ \E nss \in net :
            /\ unitEnts' = [unitEnts EXCEPT ![u] =
                   getSSEntry(u[1], u[2], ft.LocalPort, ft.RemotePort, nss)]
            /\ unitPc' = [unitPc EXCEPT ![u] =
                             IF ssMode = "direct" THEN "check" ELSE "append"]
            /\ ssWg' = ssWg
            /\ ssErr' = ssErr
    /\ UNCHANGED <<ft, net, pids, ssMode, ssPc, ssNext, sss, ssRet,
                   ssAdded, ssStarted>>
    /\ UNCHANGED streamVars

\* mutant of CapReached: the cap counts as reached one entry early
CapReachedEarly(s) == ft.TopLimit > 0 /\ Len(s) >= ft.TopLimit - 1

\* top_stream.go:310 (332, 374, 405): ft.TopLimit > 0 && len(sss) >= ft.TopLimit
CapReached(s) == ft.TopLimit > 0 /\ Len(s) >= ft.TopLimit

\* top_stream.go:309-314 (331-336, 373-378, 404-409): the cap check under
\* pmu.RLock
UnitCheck(u) ==
    /\ unitPc[u] = "check"
    /\ IF CapReached(sss)
       THEN UnitReturns(u, "capped")
       ELSE /\ unitPc' = [unitPc EXCEPT ![u] =
                             IF ssMode = "direct" THEN "append" ELSE "fetch"]
            /\ ssWg' = ssWg
    /\ UNCHANGED <<ft, net, pids, ssMode, ssPc, ssNext, unitEnts, sss, ssRet,
                   ssErr, ssAdded, ssStarted>>
    /\ UNCHANGED streamVars

\* top_stream.go:316-318 (338-340, 386-388, 417-419): the append under
\* pmu.Lock, and the unit returns
UnitAppend(u) ==
    /\ unitPc[u] = "append"
    /\ sss' = Appended(sss, unitEnts[u])
    /\ UnitReturns(u, "done")
    /\ UNCHANGED <<ft, net, pids, ssMode, ssPc, ssNext, unitEnts, ssRet,
                   ssErr, ssAdded, ssStarted>>
    /\ UNCHANGED streamVars

\* top_stream.go:424-429: wg.Wait(), the final truncation, return
SSJoin ==
    /\ ssPc = "wait"
    /\ ssWg = 0
    /\ ssRet' = Truncate(sss, ft.TopLimit)
    /\ ssPc' = "done"
    /\ UNCHANGED <<ft, net, pids, ssMode, ssNext, ssWg, unitPc, unitEnts, sss,
                   ssErr, ssAdded, ssStarted>>
    /\ UNCHANGED streamVars

\* a call of GetSS with the filter f on a host with the socket tables S
InitCall(f, S) ==
    /\ InitStream /\ feed = [noise |-> FALSE, lines |-> 0, dead |-> ErrPtmxIO]
    /\ ft = f /\ net = S
    /\ pids = <<>> /\ ssMode = "direct" /\ ssPc = "resolve" /\ ssNext = 1
    /\ ssWg = 0 /\ ssAdded = 0 /\ ssStarted = 0
    /\ unitPc = [u \in Units |-> "none"]
    /\ unitEnts = [u \in Units |-> <<>>]
    /\ sss = <<>> /\ ssRet = <<>> /\ ssErr = Nil

\* a call of GetSS with any filter without port filters, on a host where
\* all sockets look the same
InitSS ==
    \E f \in Filters :
        /\ f.LocalPort = 0 /\ f.RemotePort = 0
        /\ InitCall(f, Tables({[LocalPort |-> 1, RemotePort |-> 1]}, MaxEnts))

\* a call of GetSS with any filter for one protocol family and without a
\* cap, on a host with sockets of all ports
InitSSPorts ==
    \E f \in Filters :
        /\ ~f.TCP6 /\ f.TopLimit = 0
        /\ InitCall(f, Tables(Sockets, MaxEntsPorts))

NextSS ==
    \/ SSResolve \/ SSByProgram \/ SSSpawn \/ SSSpawned \/ SSJoin
    \/ \E u \in Units : UnitStat(u) \/ UnitFetch(u) \/ UnitCheck(u) \/ UnitAppend(u)

SpecSS == InitSS /\ [][NextSS]_vars

SpecSSPorts == InitSSPorts /\ [][NextSS]_vars

\* ------------------------------------------------------------ properties
IsPrefix(s, t) == Len(s) <= Len(t) /\ SubSeq(t, 1, Len(s)) = s

\* the map a sequence of rows leaves behind when each row overwrites the
\* entry of its process id
LastWins(rows) ==
    [p \in {rows[i].PID : i \in 1..Len(rows)} |->
        rows[CHOOSE i \in 1..Len(rows) :
                /\ rows[i].PID = p
                /\ \A j \in (i + 1)..Len(rows) : rows[j].PID # p]]

\* the rows of the well-formed lines read so far, in input order
FedRows == [i \in 1..Len(fed) |-> RowOf(fed[i])]

WorkersDone == enqPc = "done" /\ deqPc = "done"

\* C1: once Stop() or Wait() has returned, both workers have terminated
\* and any two Latest() calls made after the return yield equal maps.
C1_StoppedIsFinal ==
    /\ callPc = "stopped" => WorkersDone
    /\ \A i, j \in 1..latN :
         latAfter[i] /\ latAfter[j] => latRet[i] = latRet[j]

\* C2: rows are popped in the order they were appended, nothing is
\* appended but the rows of the well-formed lines in input order, and once
\* both workers have finished the snapshot holds, for exactly the process
\* ids that occurred, the last row read for that id.
C2_FifoLastWriteWins ==
    /\ appended = popped \o queue
    /\ IsPrefix(appended, FedRows)
    /\ WorkersDone => maps[0] = LastWins(FedRows)

C2_Witness ==
    /\ WorkersDone
    /\ Len(fed) = 3
    /\ RowOf(fed[1]).PID = 1 /\ RowOf(fed[2]).PID = 2 /\ RowOf(fed[3]).PID = 1
    /\ DOMAIN maps[0] = {1, 2}
    /\ maps[0][1] = RowOf(fed[3])

\* C3: the readiness gate fires at most once, only after a row has been
\* popped and stored in the snapshot, ready never falls back to false, and
\* StartStream has returned only if the gate has fired.
C3_ReadyOnce ==
    /\ [](/\ readycCloses <= 1
          /\ ready => (readycCloses = 1 /\ Len(popped) >= 1 /\ maps[0] # EmptyMap)
          /\ callPc # "start" => (ready /\ readycCloses = 1))
    /\ [][ready => ready']_vars

C3_Witness == ready /\ Len(popped) >= 2 /\ callPc = "running"

\* C4: Stop() returns no error for death by signal, Wait() returns no
\* error for a nonzero exit status, and a wait error outside the class
\* squashed for the mode used is returned unchanged.
C4_ShutdownReclass ==
    callPc = "stopped" =>
        /\ (kill /\ Contains(waitErr, "signal:")) => ret = Nil
        /\ (~kill /\ Contains(waitErr, "exit status")) => ret = Nil
        /\ (~kill /\ ~Contains(waitErr, "exit status")) => ret = waitErr
        /\ (kill /\ ~expectedErr(waitErr)) => ret = waitErr

C4_Witness ==
    callPc = "stopped" /\ kill /\ waitErr = ErrSignal /\ ret = Nil

\* a line the producer is to drop: banner, blank, or of the wrong arity
Dropped(d) == topRowToSkip(d) \/ d = Blank \/ Len(d) # Arity

\* C5: the producer's processing of a banner line, a blank line or a line
\* of the wrong field count changes neither the queue, the snapshot, the
\* readiness gate, the terminal error nor the error channel, and no row of
\* the snapshot comes from such a line.
C5_DroppedLinesInert ==
    /\ [][(\/ enqPc = "read" /\ enqPc' # "read" /\ lerr' = Nil /\ Dropped(data')
           \/ enqPc = "body" /\ enqPc' # "body" /\ lerr = Nil /\ Dropped(data))
          => UNCHANGED <<queue, appended, maps, ready, readycCloses, err,
                         errc, errSent>>]_vars
    /\ [](\A p \in DOMAIN maps[0] :
            \E i \in 1..Len(fed) : maps[0][p] = RowOf(fed[i]))

C5_Witness ==
    enqPc = "check" /\ data = Short /\ lerr = Nil /\ ready /\ err = Nil

\* Latest() copies under the read lock: while it copies the snapshot is the
\* one it found, what it returns is that snapshot
AtomicView ==
    /\ latPc = "copy" =>
         /\ maps[0] = latAt[latN + 1]
         /\ \A k \in DOMAIN maps[latN + 1] :
              k \in DOMAIN maps[0] /\ maps[latN + 1][k] = maps[0][k]
    /\ \A i \in 1..latN : latRet[i] = latAt[i]

\* a returned map changes only in the hands of its holder, and the snapshot
\* only by the rows the consumer pops
CopySemantics ==
    /\ \A i \in 1..latN : maps[i] \in {latRet[i], EmptyMap}
    /\ maps[0] = LastWins(popped)

\* no worker is waiting for str.rmu while Latest() holds it
NoWorkerWaitsForLatest ==
    rmuR > 0 => enqPc # "rlock" /\ deqPc \notin {"lock", "relock"}

\* C6 as stated: Latest() returns the snapshot of one instant, the returned
\* map and the snapshot are independent, and Latest() never blocks the
\* producer or the consumer.
C6_LatestNeverBlocks ==
    AtomicView /\ CopySemantics /\ NoWorkerWaitsForLatest

\* C6 as amended: Latest() returns the snapshot of one instant, the
\* returned map and the snapshot are independent, and Latest() holds the
\* read lock only while it copies: a worker that wants the write lock is
\* held up for the length of that copy and no longer.
C6_LatestCopiesUnderLock ==
    /\ AtomicView
    /\ CopySemantics
    /\ rmuR > 0 => (rmuR = 1 /\ latPc = "copy" /\ rmuW = "none")

C6_Witness ==
    /\ latN >= 1 /\ maps[1] = EmptyMap /\ latRet[1] # EmptyMap
    /\ maps[0] # latRet[1]
    /\ latPc = "copy" /\ enqPc = "rlock"

\* C7: with a result cap N > 0 the slice GetSS returns has at most N
\* entries, however the units interleave.
C7_ReturnWithinCap ==
    (ssPc = "done" /\ ft.TopLimit > 0) => Len(ssRet) <= ft.TopLimit

C7_Witness ==
    ssPc = "done" /\ ft.TopLimit = 1 /\ Len(sss) >= 3 /\ Len(ssRet) = 1

UnitsRunning == {u \in Units : unitPc[u] \notin {"none"} \cup Finished}

\* C8: for every filter the count given to wg.Add equals the number of
\* units started, so the join completes, and no unit is running when GetSS
\* has returned.
C8_JoinsWhatItSpawned ==
    /\ ssPc \in {"wait", "done"} => ssAdded = ssStarted
    /\ ssPc = "wait" => (ssWg = 0 \/ UnitsRunning # {})
    /\ ssPc = "done" => UnitsRunning = {}

\* the number of units a query fans out to
Width == Len(pids) * Cardinality({tp \in Families : Goes(tp)})

\* the largest number of entries a unit has fetched
MaxContribution ==
    CHOOSE k \in 0..(MaxEnts + 1) :
        /\ \A u \in Units : Len(unitEnts[u]) <= k
        /\ k = 0 \/ \E u \in Units : Len(unitEnts[u]) = k

\* C9 as stated: with a cap N > 0 the shared list never holds more than
\* N + (fan-out width - 1) entries, whatever a unit contributes.
C9_OvershootByWidth ==
    ft.TopLimit > 0 => Len(sss) <= ft.TopLimit + (Width - 1)

\* C9 as amended: with a cap N > 0 the shared list never holds more than
\* width * K entries, K being the largest number of entries one unit
\* contributes; it stays within N + (width - 1) when no unit contributes
\* more than one entry.
C9_OvershootByContribution ==
    ft.TopLimit > 0 =>
        /\ Len(sss) <= Width * MaxContribution
        /\ MaxContribution <= 1 => Len(sss) <= ft.TopLimit + (Width - 1)

C9_Witness ==
    /\ ft.TopLimit = 1 /\ Width = 4 /\ MaxContribution = 2
    /\ Len(sss) = 8 /\ ssPc = "wait"

\* C10: at most one error is ever sent on the error channel, and the
\* buffer is empty whenever the consumer is about to send.
C10_OneErrorNoBlock ==
    /\ errSent <= 1
    /\ Len(errc) <= 1
    /\ (deqPc = "send" /\ err # Nil) => Len(errc) = 0

C10_Witness ==
    errSent = 1 /\ Len(errc) = 1 /\ deqPc = "done" /\ callPc = "stopped"

\* the recorded errors outside the expected class
Unexpected == {e \in recorded : ~expectedErr(e)}

\* C11: the consumer forwards the terminal error on errc exactly when it is
\* outside the expected class: nothing of the expected class is ever in the
\* channel, at most one error is ever sent and it is one the producer
\* recorded, a consumer that has finished has sent the unexpected error if
\* there was one, and an unexpected error once recorded is eventually sent.
C11_ForwardsIffUnexpected ==
    /\ [](/\ \A i \in 1..Len(errc) :
                ~expectedErr(errc[i]) /\ errc[i] \in recorded
          /\ errSent <= 1
          /\ (errSent = 1 => Unexpected # {})
          /\ (deqPc = "done" /\ Unexpected # {} => errSent = 1))
    /\ (Unexpected # {} ~> errSent = 1)

\* the consumer has finished on an error of the expected class, and sent
\* nothing
C11_Witness ==
    /\ deqPc = "done" /\ recorded # {} /\ Unexpected = {} /\ errSent = 0

\* the entries of the unit u in the shared list
Contribution(u) ==
    Cardinality({i \in 1..Len(sss) :
                    sss[i].PID = u[1] /\ sss[i].Protocol = u[2]})

\* C12: a unit of work that fails contributes no entry and changes nothing
\* else: the step in which it fails leaves the shared list, the error of
\* the query and the other units as they were, the query that has fanned
\* out has a nil error, and every unit that appended has all the entries
\* it fetched in the shared list.
C12_FailedUnitContributesNothing ==
    /\ [](/\ \A u \in Units :
                /\ unitPc[u] = "failed" => Contribution(u) = 0
                /\ unitPc[u] = "done" => Contribution(u) = Len(unitEnts[u])
          /\ (pids # <<>> => ssErr = Nil))
    /\ [][\A u \in Units :
            (unitPc[u] # "failed" /\ unitPc'[u] = "failed") =>
                /\ sss' = sss /\ ssErr' = ssErr /\ unitEnts' = unitEnts
                /\ \A v \in Units \ {u} : unitPc'[v] = unitPc[v]]_vars

\* the query has returned the entries of one unit and a nil error, another
\* unit having failed
C12_Witness ==
    /\ ssPc = "done" /\ ssErr = Nil /\ Len(ssRet) = MaxEnts
    /\ \E u, v \in Units :
        /\ unitPc[u] = "failed" /\ unitPc[v] = "done"
        /\ Contribution(v) = MaxEnts

\* the entry e passes the filter f
Passes(f, e) ==
    /\ f.PID > 0 => e.PID = f.PID
    /\ f.LocalPort > 0 => e.LocalPort = f.LocalPort
    /\ f.RemotePort > 0 => e.RemotePort = f.RemotePort

\* C13: every entry of the shared list, and every entry GetSS returns,
\* satisfies the filter: its process id is the explicit process id of the
\* filter if there is one, its local port the local port of the filter if
\* set, its remote port the remote port of the filter if set.
C13_EntriesSatisfyFilter ==
    /\ \A i \in 1..Len(sss) : Passes(ft, sss[i])
    /\ \A i \in 1..Len(ssRet) : Passes(ft, ssRet[i])

\* a query by process id and both ports has returned entries
C13_Witness ==
    /\ ssPc = "done" /\ Len(ssRet) = MaxEntsPorts
    /\ ft.PID = 2 /\ ft.LocalPort = 1 /\ ft.RemotePort = 2

\* C14: StartStream returns whenever the subprocess was launched, also when
\* the stream ends before any row was consumed: once the consumer has
\* finished, the caller of StartStream has returned or readyc is closed
\* and it can return.
C14_StartStreamReturns ==
    deqPc = "done" => (callPc # "start" \/ readycCloses > 0)

\* C15: once the producer has recorded a terminal error it performs no
\* further read and appends no further row, however the consumer
\* interleaves: from then on the producer stands at its loop condition or
\* past its loop, never at the device lock, in a read, at the queue lock
\* or in the critical section of a line.
C15_NoReadAfterTerminalError ==
    recorded # {} => enqPc \in {"check", "signal", "exit", "done"}

\* C16: every row appended to the queue is eventually popped and stored in
\* the snapshot: the consumer is never in rcond.Wait() while the queue
\* holds a row, no row is in the queue when both workers have finished,
\* the rows are popped in the order of their appends, every popped row has
\* an entry in the snapshot, and a queue that holds rows leads to an empty
\* queue, that is, to the pop of each of them.
C16_AppendedRowsArePopped ==
    /\ [](/\ deqPc = "wait" => queue = <<>>
          /\ WorkersDone => queue = <<>>
          /\ appended = popped \o queue
          /\ \A i \in 1..Len(popped) : popped[i].PID \in DOMAIN maps[0])
    /\ (queue # <<>> ~> queue = <<>>)

\* all the rows the subprocess printed were appended and popped, and both
\* workers have finished
C16_Witness ==
    WorkersDone /\ Len(appended) = MaxReadsLive /\ Len(popped) = MaxReadsLive

\* the producer has left its loop
ProducerLeft == enqPc \in {"exit", "done"}

\* C17: whenever the producer leaves its loop the consumer finishes too:
\* the Signal after the loop is never lost, so no consumer is in
\* rcond.Wait() once the producer is past that Signal, and the producer
\* leaving leads to the consumer returning.
C17_ConsumerFollowsProducer ==
    /\ [](ProducerLeft => deqPc # "wait")
    /\ (ProducerLeft ~> deqPc = "done")

\* the consumer, waiting since before any row came, has been woken by the
\* Signal after the loop
C17_Witness ==
    /\ enqPc = "exit" /\ deqPc = "relock"
    /\ appended = <<>> /\ queue = <<>> /\ err # Nil

\* the total number of entries the units in S have fetched
RECURSIVE Fetched(_)
Fetched(S) ==
    IF S = {} THEN 0
    ELSE LET u == CHOOSE x \in S : TRUE
         IN Len(unitEnts[u]) + Fetched(S \ {u})

Min(a, b) == IF a < b THEN a ELSE b

\* C18: with a cap N > 0 a query that fanned out returns min(N, T)
\* entries, T being the number of entries fetched by all its units, and a
\* unit leaves without appending for the cap only when the shared list
\* holds N entries or more.
C18_ReturnsMinOfCapAndTotal ==
    /\ []((ssPc = "done" /\ ft.TopLimit > 0 /\ ssErr = Nil) =>
            Len(ssRet) = Min(ft.TopLimit, Fetched(Units)))
    /\ [][\A u \in Units :
            (unitPc[u] # "capped" /\ unitPc'[u] = "capped") =>
                (ft.TopLimit > 0 /\ Len(sss) >= ft.TopLimit)]_vars

\* a unit left for the cap with entries fetched, and the query returned
\* as many entries as the cap
C18_Witness ==
    /\ ssPc = "done" /\ ft.TopLimit = MaxLimit
    /\ \E u \in Units : unitPc[u] = "capped" /\ Len(unitEnts[u]) > 0
    /\ Fetched(Units) > MaxLimit /\ Len(ssRet) = MaxLimit

\* the device lock has the holder that stands in its critical section, so
\* close() is never closing the handle while the producer is inside a read
DeviceLockExcludes ==
    /\ ~(callPc = "ptclose" /\ enqPc = "read")
    /\ (enqPc = "read" <=> pmu = "enq")
    /\ (callPc = "ptclose" <=> pmu = "close")

\* a ReadLine call returns in this step, the handle being closed
ReadReturnsAfterClose == enqPc = "read" /\ enqPc' # "read" /\ ptClosed

\* C19 as stated: the device lock excludes the producer's read and
\* close()'s pt.Close() from one another, every read that starts after the
\* close returns an error, and the closed handle brings the producer to
\* its end.
C19_ReadAfterCloseFails ==
    /\ []DeviceLockExcludes
    /\ [][ReadReturnsAfterClose => lerr' # Nil]_vars
    /\ (ptClosed ~> enqPc = "done")

\* C19 as amended: the device lock excludes the producer's read and
\* close()'s pt.Close() from one another; a read that starts after the
\* close hands out a line the reader had buffered before, without an
\* error, as long as there is one, and returns the error of a closed file
\* and no data once the buffer is empty; the closed handle brings the
\* producer to its end.
C19_ReadAfterCloseDrainsBuffer ==
    /\ []DeviceLockExcludes
    /\ [][ReadReturnsAfterClose =>
            IF buf > 0
            THEN lerr' = Nil /\ buf' = buf - 1
            ELSE lerr' = ErrPtmxClosed /\ data' = Blank]_vars
    /\ (ptClosed ~> enqPc = "done")

\* a read begun after close() closed the handle has returned a buffered
\* row
C19_Witness ==
    ptClosed /\ enqPc = "rlock" /\ lerr = Nil /\ WellFormed(data)

\* C20: Stop() on a streaming collector returns: the call leads to its
\* return, with the producer joined, whatever the producer and the
\* consumer hold or wait for when it is made.
C20_StopReturns ==
    /\ [](callPc = "stopped" => enqPc = "done" /\ wg = 0 /\ pmu = "none")
    /\ ((callPc = "cmdwait" /\ kill) ~> callPc = "stopped")

\* Stop() has returned after its pt.Close() made the producer's read fail
C20_Witness ==
    /\ callPc = "stopped" /\ kill /\ enqPc = "done"
    /\ ErrPtmxClosed \in recorded

====
